---------------------------- MODULE Spec2Model ----------------------------
(***************************************************************************)
(* Task-board backend (FastAPI + SQLAlchemy): identities, categories and   *)
(* tasks, with role-based authorization.  Every request handler of the     *)
(* routers is one action; the committed database is the state.             *)
(***************************************************************************)
EXTENDS Integers, Sequences, FiniteSets, TLC

(* ------------------------------ bounds -------------------------------- *)
MaxUsers == 2          \* user ids are 1..MaxUsers
NumEmails == 2         \* e-mail addresses are 1..NumEmails
NumUsernames == 2      \* usernames are 1..NumUsernames
MaxCategoryId == 5     \* category ids are 1..MaxCategoryId
MaxTasks == 2          \* task ids are 1..MaxTasks
MaxOrder == 0          \* order values a request may carry are 0..MaxOrder
MaxClock == 1          \* the database clock runs 0..MaxClock
MaxItems == 2          \* length of a bulk-reorder list
MaxThreads == 2        \* request threads that run register at one time

(* ------------------------- values of the program ---------------------- *)
\* Python's None; every id, order and timestamp of the program is >= 0.
None == -1
\* None in a field that otherwise holds a string (name, color).
NoneStr == "None"

Roles == {"admin", "member", "viewer"}

HTTP_200_OK == 200
HTTP_201_CREATED == 201
HTTP_204_NO_CONTENT == 204
HTTP_400_BAD_REQUEST == 400
HTTP_401_UNAUTHORIZED == 401
HTTP_403_FORBIDDEN == 403
HTTP_404_NOT_FOUND == 404
HTTP_422_UNPROCESSABLE_ENTITY == 422
HTTP_500_INTERNAL_SERVER_ERROR == 500

UserIds == 1..MaxUsers
Emails == 1..NumEmails
Usernames == 1..NumUsernames
Passwords == {"pw", "bad"}
CategoryIds == 1..MaxCategoryId
TaskIds == 1..MaxTasks
Orders == 0..MaxOrder

VARIABLES
    users,        \* table users: id -> [username, email, hashed_password, role]
    tokens,       \* the access tokens issued so far
    categories,   \* table categories: id -> [name, order, color]
    tasks,        \* table tasks: id -> the columns of Task
    now,          \* the database clock (func.now())
    last,         \* the last request and its response
    registered,   \* history: some registration has succeeded
    pending       \* the register requests between their count and their commit

vars == <<users, tokens, categories, tasks, now, last, registered, pending>>
db == <<users, categories, tasks>>

(* ------------------------------ helpers ------------------------------- *)
Max(S) == CHOOSE x \in S : \A y \in S : y <= x

\* The last step: the request, the role the handler read for the actor ("none"
\* when there is no authenticated actor), the status of the response, the id of
\* the row a successful request made, changed or removed, and, by request, one
\* or two numbers of the request or of the response (arg, detail).
Response(op, role, status, id, detail) ==
    [op |-> op, role |-> role, status |-> status, id |-> id, arg |-> None,
     detail |-> detail]

\* The id of a new row (Column(Integer, primary_key=True)): chosen by the database,
\* greater than the id of every row of the table.
fresh_ids(used, ids) == {i \in ids : \A j \in used : j < i}

\* raise HTTPException(...): the request ends, the session is closed without a
\* commit, so the committed database is what it was.
Raise(op, role, status, detail) ==
    /\ last' = Response(op, role, status, None, detail)
    /\ UNCHANGED <<users, tokens, categories, tasks, now, registered, pending>>

(* ------------------------------ app/auth.py --------------------------- *)
get_password_hash(password) == <<"argon2", password>>

verify_password(plain_password, hashed_password) ==
    hashed_password = <<"argon2", plain_password>>

\* jwt.encode of {"sub": email, "exp": ...}.
create_access_token(email) == [sub |-> email]

\* jwt.decode and payload.get("sub"): None for a token that does not decode
\* (forged, expired) or carries no subject.
decode_access_token(token) == token.sub

\* db.query(User).filter(User.email == email).first()
get_user_by_email(email) ==
    IF \E id \in DOMAIN users : users[id].email = email
    THEN CHOOSE id \in DOMAIN users : users[id].email = email
    ELSE None

\* The id of the user row of the token's subject, or None for 401.
get_current_user(token) ==
    IF decode_access_token(token) = None
    THEN None
    ELSE get_user_by_email(decode_access_token(token))

\* A credential is an issued token or one that does not decode.
Credentials == tokens \cup {[sub |-> None]}

\* The role that registration gave the user: admin to the first, member to the
\* others.
actor_role_as_registered(token) ==
    IF get_current_user(token) = None
    THEN "none"
    ELSE IF \A id \in DOMAIN users : get_current_user(token) <= id
    THEN "admin"
    ELSE "member"

\* current_user.role, as the handlers read it.
actor_role(token) ==
    IF get_current_user(token) = None
    THEN "none"
    ELSE users[get_current_user(token)].role

\* A check that lets members through.
get_current_admin_user_lax(role) == role # "viewer"

\* get_current_admin_user: the dependency of the routes of users.py passes
\* Admin only.
get_current_admin_user(role) == role = "admin"

\* A role check that lets every authenticated user through.
require_admin_or_member_lax(role) == TRUE

\* require_admin_or_member of app/auth.py, called by the routes of tasks.py.
require_admin_or_member(role) == role \in {"admin", "member"}

(* --------------------------- app/routers/auth.py ---------------------- *)
\* An off-by-one in the count test.
default_role_off_by_one(user_count) == IF user_count <= 1 THEN "admin" ELSE "member"

\* The role of a newly registered user, from user_count = db.query(User).count().
default_role(user_count) == IF user_count = 0 THEN "admin" ELSE "member"

\* A registration that checks the e-mail address only.
register_status_email_only(username, email) ==
    IF get_user_by_email(email) # None
    THEN HTTP_400_BAD_REQUEST
    ELSE HTTP_201_CREATED

register_status(username, email) ==
    IF get_user_by_email(email) # None
    THEN HTTP_400_BAD_REQUEST
    ELSE IF \E id \in DOMAIN users : users[id].username = username
    THEN HTTP_400_BAD_REQUEST
    ELSE HTTP_201_CREATED

register(username, email, password) ==
    IF register_status(username, email) # HTTP_201_CREATED
    THEN Raise("register", "none", register_status(username, email), None)
    ELSE \E id \in fresh_ids(DOMAIN users, UserIds) :
           /\ users' = [i \in DOMAIN users \cup {id} |->
                          IF i = id
                          THEN [username |-> username, email |-> email,
                                hashed_password |-> get_password_hash(password),
                                role |-> default_role(Cardinality(DOMAIN users))]
                          ELSE users[i]]
           /\ registered' = TRUE
           /\ last' = Response("register", "none", HTTP_201_CREATED, id, None)
           /\ UNCHANGED <<tokens, categories, tasks, now, pending>>

\* register is a plain def: each request runs on a thread of the pool with a
\* session of its own.  A thread that has passed the two lookups and the count
\* (lines 39-60) holds the count it read until it commits.
Threads == 1..MaxThreads

register_count(thread, username, email, password) ==
    /\ \A r \in pending : r.thread # thread
    /\ IF register_status(username, email) # HTTP_201_CREATED
       THEN Raise("register", "none", register_status(username, email), None)
       ELSE /\ pending' = pending \cup {[thread |-> thread, username |-> username,
                                         email |-> email, password |-> password,
                                         user_count |-> Cardinality(DOMAIN users)]}
            /\ UNCHANGED <<users, tokens, categories, tasks, now, last, registered>>

\* The INSERT of db.commit() (lines 62-70): the unique indexes of username and
\* email refuse a row that another thread has committed in between, and the
\* IntegrityError is not handled.
register_commit_status(r) ==
    IF \E id \in DOMAIN users :
          users[id].email = r.email \/ users[id].username = r.username
    THEN HTTP_500_INTERNAL_SERVER_ERROR
    ELSE HTTP_201_CREATED

register_commit(r) ==
    /\ r \in pending
    /\ pending' = pending \ {r}
    /\ IF register_commit_status(r) # HTTP_201_CREATED
       THEN /\ last' = Response("register", "none", register_commit_status(r), None, None)
            /\ UNCHANGED <<users, tokens, categories, tasks, now, registered>>
       ELSE \E id \in fresh_ids(DOMAIN users, UserIds) :
              /\ users' = [i \in DOMAIN users \cup {id} |->
                             IF i = id
                             THEN [username |-> r.username, email |-> r.email,
                                   hashed_password |-> get_password_hash(r.password),
                                   role |-> default_role(r.user_count)]
                             ELSE users[i]]
              /\ registered' = TRUE
              /\ last' = Response("register", "none", HTTP_201_CREATED, id, None)
              /\ UNCHANGED <<tokens, categories, tasks, now>>

login_status(email, password) ==
    IF get_user_by_email(email) = None
    THEN HTTP_401_UNAUTHORIZED
    ELSE IF ~verify_password(password, users[get_user_by_email(email)].hashed_password)
    THEN HTTP_401_UNAUTHORIZED
    ELSE HTTP_200_OK

login(email, password) ==
    IF login_status(email, password) # HTTP_200_OK
    THEN Raise("login", "none", login_status(email, password), None)
    ELSE /\ tokens' = tokens \cup {create_access_token(email)}
         /\ last' = Response("login", "none", HTTP_200_OK, get_user_by_email(email), None)
         /\ UNCHANGED <<users, categories, tasks, now, registered, pending>>

(* --------------------------- app/routers/users.py --------------------- *)
\* The checks of update_user_role, in the order of the code: the admin
\* dependency (get_current_admin_user), the self-target test, the lookup.
\* A role change that an admin may aim at their own account.
update_user_role_status_on_self(token, user_id) ==
    IF get_current_user(token) = None
    THEN HTTP_401_UNAUTHORIZED
    ELSE IF ~get_current_admin_user(actor_role(token))
    THEN HTTP_403_FORBIDDEN
    ELSE IF user_id \notin DOMAIN users
    THEN HTTP_404_NOT_FOUND
    ELSE HTTP_200_OK

update_user_role_status(token, user_id) ==
    IF get_current_user(token) = None
    THEN HTTP_401_UNAUTHORIZED
    ELSE IF ~get_current_admin_user(actor_role(token))
    THEN HTTP_403_FORBIDDEN
    ELSE IF user_id = get_current_user(token)
    THEN HTTP_400_BAD_REQUEST
    ELSE IF user_id \notin DOMAIN users
    THEN HTTP_404_NOT_FOUND
    ELSE HTTP_200_OK

update_user_role(token, user_id, role) ==
    IF update_user_role_status(token, user_id) # HTTP_200_OK
    THEN Raise("update_user_role", actor_role(token),
               update_user_role_status(token, user_id), None)
    ELSE /\ users' = [users EXCEPT ![user_id].role = role]
         /\ last' = Response("update_user_role", actor_role(token), HTTP_200_OK,
                             user_id, None)
         /\ UNCHANGED <<tokens, categories, tasks, now, registered, pending>>

\* db.delete(user) first detaches the tasks of the user's relationships
\* (created_tasks, assigned_tasks; no cascade): their foreign key is set to NULL.
\* Task.created_by cannot hold NULL, so the commit fails (IntegrityError) when
\* the user created a task.
delete_user_status(token, user_id) ==
    IF get_current_user(token) = None
    THEN HTTP_401_UNAUTHORIZED
    ELSE IF ~get_current_admin_user(actor_role(token))
    THEN HTTP_403_FORBIDDEN
    ELSE IF user_id = get_current_user(token)
    THEN HTTP_400_BAD_REQUEST
    ELSE IF user_id \notin DOMAIN users
    THEN HTTP_404_NOT_FOUND
    ELSE IF \E t \in DOMAIN tasks : tasks[t].created_by = user_id
    THEN HTTP_500_INTERNAL_SERVER_ERROR
    ELSE HTTP_204_NO_CONTENT

\* A DELETE of the user row that leaves the tasks as they are.
unassigned_tasks_none(user_id) == tasks

\* The tasks after the user's assigned_tasks were detached.
unassigned_tasks(user_id) ==
    [t \in DOMAIN tasks |->
       IF tasks[t].assigned_to = user_id
       THEN [tasks[t] EXCEPT !.assigned_to = None, !.updated_at = now]
       ELSE tasks[t]]

delete_user(token, user_id) ==
    IF delete_user_status(token, user_id) # HTTP_204_NO_CONTENT
    THEN Raise("delete_user", actor_role(token), delete_user_status(token, user_id), None)
    ELSE /\ users' = [i \in DOMAIN users \ {user_id} |-> users[i]]
         /\ tasks' = unassigned_tasks(user_id)
         /\ last' = Response("delete_user", actor_role(token), HTTP_204_NO_CONTENT,
                             user_id, None)
         /\ UNCHANGED <<tokens, categories, now, registered, pending>>

\* The handlers of users.py, categories.py and tasks.py are coroutines that run
\* from their checks to their commit without a pause on the event loop of
\* their server process; requests that different server processes serve on the
\* same database run at the same time, each with a session of its own.
Workers == 1..MaxThreads

\* update_user_role up to its commit: the admin check, the self check and the
\* lookup of the user (lines 62-93) read the committed table.
update_user_role_read(worker, token, user_id, role) ==
    /\ \A r \in pending : r.thread # worker
    /\ IF update_user_role_status(token, user_id) # HTTP_200_OK
       THEN Raise("update_user_role", actor_role(token),
                  update_user_role_status(token, user_id), None)
       ELSE /\ pending' = pending \cup {[thread |-> worker, op |-> "update_user_role",
                                         actor_role |-> actor_role(token),
                                         user_id |-> user_id, role |-> role]}
            /\ UNCHANGED <<users, tokens, categories, tasks, now, last, registered>>

\* delete_user up to its commit (lines 100-125).
delete_user_read(worker, token, user_id) ==
    /\ \A r \in pending : r.thread # worker
    /\ IF delete_user_status(token, user_id)
            \notin {HTTP_204_NO_CONTENT, HTTP_500_INTERNAL_SERVER_ERROR}
       THEN Raise("delete_user", actor_role(token),
                  delete_user_status(token, user_id), None)
       ELSE /\ pending' = pending \cup {[thread |-> worker, op |-> "delete_user",
                                         actor_role |-> actor_role(token),
                                         user_id |-> user_id, role |-> "none"]}
            /\ UNCHANGED <<users, tokens, categories, tasks, now, last, registered>>

\* The commit of update_user_role (lines 94-95): the UPDATE of the row that the
\* request loaded.  An UPDATE that finds the row gone fails (StaleDataError).
update_user_role_commit(r) ==
    /\ r \in pending
    /\ r.op = "update_user_role"
    /\ pending' = pending \ {r}
    /\ IF r.user_id \notin DOMAIN users
       THEN /\ last' = Response("update_user_role", r.actor_role,
                                HTTP_500_INTERNAL_SERVER_ERROR, None, None)
            /\ UNCHANGED <<users, tokens, categories, tasks, now, registered>>
       ELSE /\ users' = [users EXCEPT ![r.user_id].role = r.role]
            /\ last' = Response("update_user_role", r.actor_role, HTTP_200_OK,
                                r.user_id, None)
            /\ UNCHANGED <<tokens, categories, tasks, now, registered>>

\* The commit of delete_user (lines 127-128): a DELETE that finds the row gone
\* deletes nothing; a task that the user created fails the commit.
delete_user_commit(r) ==
    /\ r \in pending
    /\ r.op = "delete_user"
    /\ pending' = pending \ {r}
    /\ IF \E t \in DOMAIN tasks : tasks[t].created_by = r.user_id
       THEN /\ last' = Response("delete_user", r.actor_role,
                                HTTP_500_INTERNAL_SERVER_ERROR, None, None)
            /\ UNCHANGED <<users, tokens, categories, tasks, now, registered>>
       ELSE /\ users' = [i \in DOMAIN users \ {r.user_id} |-> users[i]]
            /\ tasks' = unassigned_tasks(r.user_id)
            /\ last' = Response("delete_user", r.actor_role, HTTP_204_NO_CONTENT,
                                r.user_id, None)
            /\ UNCHANGED <<tokens, categories, now, registered>>

\* require_admin_or_member of routers/categories.py.
categories_require_admin_or_member(role) == role \in {"admin", "member"}

\* A role check that lets members through.
categories_require_admin_lax(role) == role # "viewer"

\* require_admin of routers/categories.py.
categories_require_admin(role) == role = "admin"

(* ------------------------ app/routers/categories.py ------------------- *)
\* The session of a request sees its own uncommitted writes; db.commit() makes
\* them the committed table, and a session closed without a commit leaves the
\* committed table as it was.
Commit(committed, session) == session

Rollback(committed, session) == committed

\* The ORDER BY of get_categories: a row comes before the rows of greater order;
\* the database returns rows of equal order in any sequence.
category_before(a, b) == categories[a].order < categories[b].order

RECURSIVE categories_ordered(_)
categories_ordered(ids) ==
    IF ids = {}
    THEN {<<>>}
    ELSE UNION {{<<m>> \o rest : rest \in categories_ordered(ids \ {m})} :
                  m \in {m \in ids : \A o \in ids : ~category_before(o, m)}}

\* The lists that get_categories can return, as sequences of category ids.
get_categories == categories_ordered(DOMAIN categories)

\* A name lookup that finds nothing.
category_by_name_blind(name) == None

\* db.query(Category).filter(Category.name == name).first()
category_by_name(name) ==
    IF \E id \in DOMAIN categories : categories[id].name = name
    THEN CHOOSE id \in DOMAIN categories : categories[id].name = name
    ELSE None

\* Every task of the board, whatever its category.
category_tasks_all(category_id) == DOMAIN tasks

\* category.tasks: the tasks whose category_id is this category.
category_tasks(category_id) ==
    {t \in DOMAIN tasks : tasks[t].category_id = category_id}

create_category_status(token, name) ==
    IF get_current_user(token) = None
    THEN HTTP_401_UNAUTHORIZED
    ELSE IF ~categories_require_admin_or_member(actor_role(token))
    THEN HTTP_403_FORBIDDEN
    ELSE IF category_by_name(name) # None
    THEN HTTP_400_BAD_REQUEST
    ELSE HTTP_201_CREATED

create_category(token, name, order, color) ==
    IF create_category_status(token, name) # HTTP_201_CREATED
    THEN Raise("create_category", actor_role(token),
               create_category_status(token, name), None)
    ELSE \E id \in fresh_ids(DOMAIN categories, CategoryIds) :
           /\ categories' = [i \in DOMAIN categories \cup {id} |->
                               IF i = id
                               THEN [name |-> name, order |-> order, color |-> color]
                               ELSE categories[i]]
           /\ last' = Response("create_category", actor_role(token),
                               HTTP_201_CREATED, id, None)
           /\ UNCHANGED <<users, tokens, tasks, now, registered, pending>>

\* The loop of reorder_categories over items[i..]: the session's categories
\* after the writes made so far, and 404 at the first id that is not found.
\* A write that makes room for the category: the categories at or after its
\* new order move one further.
reorder_item_shift(session, item) ==
    [c \in DOMAIN session |->
       IF c = item.id
       THEN [session[c] EXCEPT !.order = item.order]
       ELSE IF session[c].order >= item.order
       THEN [session[c] EXCEPT !.order = @ + 1]
       ELSE session[c]]

\* category.order = item.order, on the category of the item.
reorder_item(session, item) == [session EXCEPT ![item.id].order = item.order]

RECURSIVE reorder_loop(_, _, _)
reorder_loop(session, items, i) ==
    IF i > Len(items)
    THEN [status |-> HTTP_200_OK, session |-> session]
    ELSE IF items[i].id \notin DOMAIN session
    THEN [status |-> HTTP_404_NOT_FOUND, session |-> session]
    ELSE reorder_loop(reorder_item(session, items[i]), items, i + 1)

\* A commit after every write of the loop.
reorder_committed_each(items) == reorder_loop(categories, items, 1).session

\* What reorder_categories leaves committed: the one db.commit() follows the
\* loop, so a 404 raised inside the loop ends the request with nothing committed.
reorder_committed(items) ==
    IF reorder_loop(categories, items, 1).status = HTTP_200_OK
    THEN Commit(categories, reorder_loop(categories, items, 1).session)
    ELSE Rollback(categories, reorder_loop(categories, items, 1).session)

reorder_categories_status(token, items) ==
    IF get_current_user(token) = None
    THEN HTTP_401_UNAUTHORIZED
    ELSE IF ~categories_require_admin_or_member(actor_role(token))
    THEN HTTP_403_FORBIDDEN
    ELSE reorder_loop(categories, items, 1).status

\* The list that reorder_categories returns: the query of get_categories, run
\* after the commit.
reorder_categories_response == get_categories

reorder_categories(token, items) ==
    IF reorder_categories_status(token, items) \in {HTTP_401_UNAUTHORIZED, HTTP_403_FORBIDDEN}
    THEN Raise("reorder_categories", actor_role(token),
               reorder_categories_status(token, items), None)
    ELSE /\ categories' = reorder_committed(items)
         /\ last' = Response("reorder_categories", actor_role(token),
                             reorder_categories_status(token, items), None, None)
         /\ UNCHANGED <<users, tokens, tasks, now, registered, pending>>

\* The setattr loop of update_category: a field that is unset or None is skipped.
patch_category(category, name, order, color) ==
    [name |-> IF name # NoneStr THEN name ELSE category.name,
     order |-> IF order # None THEN order ELSE category.order,
     color |-> IF color # NoneStr THEN color ELSE category.color]

update_category_status(token, category_id, name) ==
    IF get_current_user(token) = None
    THEN HTTP_401_UNAUTHORIZED
    ELSE IF ~categories_require_admin_or_member(actor_role(token))
    THEN HTTP_403_FORBIDDEN
    ELSE IF category_id \notin DOMAIN categories
    THEN HTTP_404_NOT_FOUND
    ELSE IF /\ name # NoneStr
            /\ name # categories[category_id].name
            /\ category_by_name(name) # None
    THEN HTTP_400_BAD_REQUEST
    ELSE HTTP_200_OK

update_category(token, category_id, name, order, color) ==
    IF update_category_status(token, category_id, name) # HTTP_200_OK
    THEN Raise("update_category", actor_role(token),
               update_category_status(token, category_id, name), None)
    ELSE /\ categories' = [categories EXCEPT ![category_id] =
                              patch_category(@, name, order, color)]
         /\ last' = Response("update_category", actor_role(token), HTTP_200_OK,
                             category_id, None)
         /\ UNCHANGED <<users, tokens, tasks, now, registered, pending>>

delete_category_status(token, category_id) ==
    IF get_current_user(token) = None
    THEN HTTP_401_UNAUTHORIZED
    ELSE IF ~categories_require_admin(actor_role(token))
    THEN HTTP_403_FORBIDDEN
    ELSE IF category_id \notin DOMAIN categories
    THEN HTTP_404_NOT_FOUND
    ELSE IF Cardinality(category_tasks(category_id)) > 0
    THEN HTTP_400_BAD_REQUEST
    ELSE HTTP_204_NO_CONTENT

\* The number that the detail of delete_category's 400 embeds:
\* len(category.tasks).
delete_category_detail(token, category_id) ==
    IF delete_category_status(token, category_id) = HTTP_400_BAD_REQUEST
    THEN Cardinality(category_tasks(category_id))
    ELSE None

delete_category(token, category_id) ==
    IF delete_category_status(token, category_id) # HTTP_204_NO_CONTENT
    THEN Raise("delete_category", actor_role(token),
               delete_category_status(token, category_id),
               delete_category_detail(token, category_id))
    ELSE /\ categories' = [i \in DOMAIN categories \ {category_id} |-> categories[i]]
         /\ last' = Response("delete_category", actor_role(token), HTTP_204_NO_CONTENT,
                             category_id, None)
         /\ UNCHANGED <<users, tokens, tasks, now, registered, pending>>

(* -------------------------- app/routers/tasks.py ---------------------- *)
\* An ORDER BY of the order column alone.
task_before_by_order(a, b) == tasks[a].order < tasks[b].order

\* The ORDER BY of get_tasks: category_id first, order second; the database
\* returns rows that are equal in both in any sequence.
task_before(a, b) ==
    \/ tasks[a].category_id < tasks[b].category_id
    \/ /\ tasks[a].category_id = tasks[b].category_id
       /\ tasks[a].order < tasks[b].order

RECURSIVE tasks_ordered(_)
tasks_ordered(ids) ==
    IF ids = {}
    THEN {<<>>}
    ELSE UNION {{<<m>> \o rest : rest \in tasks_ordered(ids \ {m})} :
                  m \in {m \in ids : \A o \in ids : ~task_before(o, m)}}

\* The lists that get_tasks can return under its three optional filters, as
\* sequences of task ids.
get_tasks(category_id, assigned_to, priority) ==
    tasks_ordered({t \in DOMAIN tasks :
                     /\ category_id # None => tasks[t].category_id = category_id
                     /\ assigned_to # None => tasks[t].assigned_to = assigned_to
                     /\ priority # NoneStr => tasks[t].priority = priority})

\* db.query(func.max(Task.order)).filter(Task.category_id == category_id).scalar():
\* SQL's MAX over no rows is NULL.
max_order(category_id) ==
    IF category_tasks(category_id) = {}
    THEN None
    ELSE Max({tasks[t].order : t \in category_tasks(category_id)})

\* Python's `x or 0`: None and 0 are both falsy.
or_zero(x) == IF x = None \/ x = 0 THEN 0 ELSE x

\* The greatest order of the category itself, with no step beyond it.
get_next_order_no_step(category_id) == or_zero(max_order(category_id))

get_next_order(category_id) == or_zero(max_order(category_id)) + 1

\* The body of create_task (TaskCreate) and of update_task (TaskUpdate, the
\* fields that were set: model_dump(exclude_unset=True)) are records over these.
TaskFields ==
    {"title", "description", "category_id", "assigned_to", "start_date",
     "due_date", "priority", "order"}

\* The columns of Task that cannot hold NULL (nullable=False).
NotNullColumns == {"title", "category_id", "priority", "order"}

\* None, for a field of strings and for a field of integers.
StringFields == {"title", "description", "priority"}

is_none(field, value) ==
    IF field \in StringFields THEN value = NoneStr ELSE value = None

\* A field of a TaskUpdate that was not set reads as its default, None.
patch_get(task_data, field) ==
    IF field \in DOMAIN task_data THEN task_data[field] ELSE None

create_task_status(token, task_data) ==
    IF get_current_user(token) = None
    THEN HTTP_401_UNAUTHORIZED
    ELSE IF ~require_admin_or_member(actor_role(token))
    THEN HTTP_403_FORBIDDEN
    ELSE IF task_data.category_id \notin DOMAIN categories
    THEN HTTP_404_NOT_FOUND
    ELSE IF task_data.assigned_to # None /\ task_data.assigned_to \notin DOMAIN users
    THEN HTTP_404_NOT_FOUND
    ELSE HTTP_201_CREATED

\* The order of a new task: the order of the request, or get_next_order.
create_task_order(task_data) ==
    IF task_data.order = None
    THEN get_next_order(task_data.category_id)
    ELSE task_data.order

create_task(token, task_data) ==
    IF create_task_status(token, task_data) # HTTP_201_CREATED
    THEN Raise("create_task", actor_role(token), create_task_status(token, task_data), None)
    ELSE \E id \in fresh_ids(DOMAIN tasks, TaskIds) :
           /\ tasks' = [i \in DOMAIN tasks \cup {id} |->
                          IF i = id
                          THEN [title |-> task_data.title,
                                description |-> task_data.description,
                                category_id |-> task_data.category_id,
                                assigned_to |-> task_data.assigned_to,
                                created_by |-> get_current_user(token),
                                start_date |-> task_data.start_date,
                                due_date |-> task_data.due_date,
                                priority |-> task_data.priority,
                                order |-> create_task_order(task_data),
                                created_at |-> now,
                                updated_at |-> now]
                          ELSE tasks[i]]
           /\ last' = Response("create_task", actor_role(token), HTTP_201_CREATED,
                               id, task_data.order)
           /\ UNCHANGED <<users, tokens, categories, now, registered, pending>>

\* The UPDATE of a task row: updated_at is refreshed (onupdate=func.now()) when
\* a column of the row changed; no UPDATE is sent for a row that did not change.
flush_task(task, written) ==
    IF written = task THEN task ELSE [written EXCEPT !.updated_at = now]

\* A loop that skips the fields set to None, as the loop of update_category does.
patch_task_skip_none(task, task_data) ==
    flush_task(task, [f \in DOMAIN task |->
                        IF f \in DOMAIN task_data /\ ~is_none(f, task_data[f])
                        THEN task_data[f]
                        ELSE task[f]])

\* The setattr loop of update_task over the fields that were set.
patch_task(task, task_data) ==
    flush_task(task, [f \in DOMAIN task |->
                        IF f \in DOMAIN task_data THEN task_data[f] ELSE task[f]])

\* An update that does not look the new assignee up.
update_task_status_any_assignee(token, task_id, task_data) ==
    IF get_current_user(token) = None
    THEN HTTP_401_UNAUTHORIZED
    ELSE IF ~require_admin_or_member(actor_role(token))
    THEN HTTP_403_FORBIDDEN
    ELSE IF task_id \notin DOMAIN tasks
    THEN HTTP_404_NOT_FOUND
    ELSE IF /\ patch_get(task_data, "category_id") # None
            /\ task_data.category_id \notin DOMAIN categories
    THEN HTTP_404_NOT_FOUND
    ELSE HTTP_200_OK

update_task_status(token, task_id, task_data) ==
    IF get_current_user(token) = None
    THEN HTTP_401_UNAUTHORIZED
    ELSE IF ~require_admin_or_member(actor_role(token))
    THEN HTTP_403_FORBIDDEN
    ELSE IF task_id \notin DOMAIN tasks
    THEN HTTP_404_NOT_FOUND
    ELSE IF /\ patch_get(task_data, "category_id") # None
            /\ task_data.category_id \notin DOMAIN categories
    THEN HTTP_404_NOT_FOUND
    ELSE IF /\ patch_get(task_data, "assigned_to") # None
            /\ task_data.assigned_to \notin DOMAIN users
    THEN HTTP_404_NOT_FOUND
    ELSE IF \E f \in DOMAIN task_data \cap NotNullColumns : is_none(f, task_data[f])
    THEN \* db.commit() fails on the NOT NULL column: IntegrityError, no commit
         HTTP_500_INTERNAL_SERVER_ERROR
    ELSE HTTP_200_OK

update_task(token, task_id, task_data) ==
    IF update_task_status(token, task_id, task_data) # HTTP_200_OK
    THEN Raise("update_task", actor_role(token),
               update_task_status(token, task_id, task_data), None)
    ELSE /\ tasks' = [tasks EXCEPT ![task_id] = patch_task(@, task_data)]
         /\ last' = Response("update_task", actor_role(token), HTTP_200_OK, task_id, None)
         /\ UNCHANGED <<users, tokens, categories, now, registered, pending>>

\* A policy that forgets the creator.
may_delete_task_by_role(role, is_creator) == role \in {"admin", "member"}

\* Who may delete a task: Admin, Member, or its creator.
may_delete_task(role, is_creator) == role \in {"admin", "member"} \/ is_creator

delete_task_status(token, task_id) ==
    IF get_current_user(token) = None
    THEN HTTP_401_UNAUTHORIZED
    ELSE IF task_id \notin DOMAIN tasks
    THEN HTTP_404_NOT_FOUND
    ELSE IF ~may_delete_task(actor_role(token),
                             tasks[task_id].created_by = get_current_user(token))
    THEN HTTP_403_FORBIDDEN
    ELSE HTTP_204_NO_CONTENT

delete_task(token, task_id) ==
    IF delete_task_status(token, task_id) # HTTP_204_NO_CONTENT
    THEN Raise("delete_task", actor_role(token), delete_task_status(token, task_id), None)
    ELSE /\ tasks' = [i \in DOMAIN tasks \ {task_id} |-> tasks[i]]
         /\ last' = Response("delete_task", actor_role(token), HTTP_204_NO_CONTENT,
                             task_id, None)
         /\ UNCHANGED <<users, tokens, categories, now, registered, pending>>

\* A move that forgets the category and writes the order only.
moved_task_in_place(task, category_id, order) == [task EXCEPT !.order = order]

\* The two assignments of move_task and the UPDATE they cause.
moved_task(task, category_id, order) ==
    flush_task(task, [task EXCEPT !.category_id = category_id, !.order = order])

\* A move that looks the task up before it checks the role.
move_task_status_lookup_first(token, task_id, category_id) ==
    IF get_current_user(token) = None
    THEN HTTP_401_UNAUTHORIZED
    ELSE IF task_id \notin DOMAIN tasks
    THEN HTTP_404_NOT_FOUND
    ELSE IF ~require_admin_or_member(actor_role(token))
    THEN HTTP_403_FORBIDDEN
    ELSE IF category_id \notin DOMAIN categories
    THEN HTTP_404_NOT_FOUND
    ELSE HTTP_200_OK

move_task_status(token, task_id, category_id) ==
    IF get_current_user(token) = None
    THEN HTTP_401_UNAUTHORIZED
    ELSE IF ~require_admin_or_member(actor_role(token))
    THEN HTTP_403_FORBIDDEN
    ELSE IF task_id \notin DOMAIN tasks
    THEN HTTP_404_NOT_FOUND
    ELSE IF category_id \notin DOMAIN categories
    THEN HTTP_404_NOT_FOUND
    ELSE HTTP_200_OK

move_task(token, task_id, category_id, order) ==
    IF move_task_status(token, task_id, category_id) # HTTP_200_OK
    THEN Raise("move_task", actor_role(token),
               move_task_status(token, task_id, category_id), None)
    ELSE /\ tasks' = [tasks EXCEPT ![task_id] = moved_task(@, category_id, order)]
         /\ last' = [Response("move_task", actor_role(token), HTTP_200_OK, task_id, order)
                        EXCEPT !.arg = category_id]
         /\ UNCHANGED <<users, tokens, categories, now, registered, pending>>

\* Time passes on the database server.
Tick ==
    /\ now < MaxClock
    /\ now' = now + 1
    /\ last' = Response("tick", "none", None, None, None)
    /\ UNCHANGED <<users, tokens, categories, tasks, registered, pending>>

(* --------------- requests of tasks and categories at the same time ---- *)
\* Whether the database engine enforces the foreign keys that the models
\* declare; the engine is configured outside the modelled files.
ForeignKeys == BOOLEAN

\* create_task up to its commit (lines 80-116): the role check, the lookups of
\* the category and the assignee and get_next_order read the committed tables.
create_task_read(worker, token, task_data) ==
    /\ \A r \in pending : r.thread # worker
    /\ IF create_task_status(token, task_data) # HTTP_201_CREATED
       THEN Raise("create_task", actor_role(token),
                  create_task_status(token, task_data), None)
       ELSE /\ pending' = pending \cup {[thread |-> worker, op |-> "create_task",
                                         actor_role |-> actor_role(token),
                                         created_by |-> get_current_user(token),
                                         id |-> None,
                                         category_id |-> task_data.category_id,
                                         order |-> create_task_order(task_data)]}
            /\ UNCHANGED <<users, tokens, categories, tasks, now, last, registered>>

\* The INSERT of create_task's commit (lines 117-118): an engine that enforces
\* foreign keys refuses a category_id or a created_by whose row is gone.
create_task_commit(r, enforced) ==
    /\ r \in pending
    /\ r.op = "create_task"
    /\ pending' = pending \ {r}
    /\ IF enforced /\ (r.category_id \notin DOMAIN categories
                       \/ r.created_by \notin DOMAIN users)
       THEN /\ last' = Response("create_task", r.actor_role,
                                HTTP_500_INTERNAL_SERVER_ERROR, None, None)
            /\ UNCHANGED <<users, tokens, categories, tasks, now, registered>>
       ELSE \E id \in fresh_ids(DOMAIN tasks, TaskIds) :
              /\ tasks' = [i \in DOMAIN tasks \cup {id} |->
                             IF i = id
                             THEN [title |-> "task", description |-> NoneStr,
                                   category_id |-> r.category_id,
                                   assigned_to |-> None,
                                   created_by |-> r.created_by,
                                   start_date |-> None, due_date |-> None,
                                   priority |-> "medium", order |-> r.order,
                                   created_at |-> now, updated_at |-> now]
                             ELSE tasks[i]]
              /\ last' = Response("create_task", r.actor_role, HTTP_201_CREATED, id, None)
              /\ UNCHANGED <<users, tokens, categories, now, registered>>

\* move_task up to its commit (lines 217-243).
move_task_read(worker, token, task_id, category_id, order) ==
    /\ \A r \in pending : r.thread # worker
    /\ IF move_task_status(token, task_id, category_id) # HTTP_200_OK
       THEN Raise("move_task", actor_role(token),
                  move_task_status(token, task_id, category_id), None)
       ELSE /\ pending' = pending \cup {[thread |-> worker, op |-> "move_task",
                                         actor_role |-> actor_role(token),
                                         created_by |-> None,
                                         id |-> task_id,
                                         category_id |-> category_id,
                                         order |-> order]}
            /\ UNCHANGED <<users, tokens, categories, tasks, now, last, registered>>

\* The UPDATE of move_task's commit (lines 245-247): it fails on a task that is
\* gone (StaleDataError) and, where foreign keys are enforced, on a category
\* that is gone.
move_task_commit(r, enforced) ==
    /\ r \in pending
    /\ r.op = "move_task"
    /\ pending' = pending \ {r}
    /\ IF r.id \notin DOMAIN tasks
          \/ (enforced /\ r.category_id \notin DOMAIN categories)
       THEN /\ last' = Response("move_task", r.actor_role,
                                HTTP_500_INTERNAL_SERVER_ERROR, None, None)
            /\ UNCHANGED <<users, tokens, categories, tasks, now, registered>>
       ELSE /\ tasks' = [tasks EXCEPT ![r.id] = moved_task(@, r.category_id, r.order)]
            /\ last' = Response("move_task", r.actor_role, HTTP_200_OK, r.id, None)
            /\ UNCHANGED <<users, tokens, categories, now, registered>>

\* delete_category up to its commit (lines 156-178): the role check, the lookup
\* and len(category.tasks) read the committed tables.
delete_category_read(worker, token, category_id) ==
    /\ \A r \in pending : r.thread # worker
    /\ IF delete_category_status(token, category_id) # HTTP_204_NO_CONTENT
       THEN Raise("delete_category", actor_role(token),
                  delete_category_status(token, category_id),
                  delete_category_detail(token, category_id))
       ELSE /\ pending' = pending \cup {[thread |-> worker, op |-> "delete_category",
                                         actor_role |-> actor_role(token),
                                         created_by |-> None,
                                         id |-> None,
                                         category_id |-> category_id,
                                         order |-> None]}
            /\ UNCHANGED <<users, tokens, categories, tasks, now, last, registered>>

\* The DELETE of delete_category's commit (lines 180-181).  category.tasks was
\* loaded empty, so no task is detached; a DELETE that finds the row gone
\* deletes nothing; an engine that enforces foreign keys refuses the DELETE of
\* a category that a task references by now.
delete_category_commit(r, enforced) ==
    /\ r \in pending
    /\ r.op = "delete_category"
    /\ pending' = pending \ {r}
    /\ IF enforced /\ category_tasks(r.category_id) # {}
       THEN /\ last' = Response("delete_category", r.actor_role,
                                HTTP_500_INTERNAL_SERVER_ERROR, None, None)
            /\ UNCHANGED <<users, tokens, categories, tasks, now, registered>>
       ELSE /\ categories' = [i \in DOMAIN categories \ {r.category_id} |-> categories[i]]
            /\ last' = Response("delete_category", r.actor_role, HTTP_204_NO_CONTENT,
                                r.category_id, None)
            /\ UNCHANGED <<users, tokens, tasks, now, registered>>

\* create_category up to its commit (lines 49-67): the role check and the
\* lookup of the name read the committed table.
create_category_read(worker, token, name, order, color) ==
    /\ \A r \in pending : r.thread # worker
    /\ IF create_category_status(token, name) # HTTP_201_CREATED
       THEN Raise("create_category", actor_role(token),
                  create_category_status(token, name), None)
       ELSE /\ pending' = pending \cup {[thread |-> worker, op |-> "create_category",
                                         actor_role |-> actor_role(token),
                                         id |-> None, name |-> name,
                                         order |-> order, color |-> color]}
            /\ UNCHANGED <<users, tokens, categories, tasks, now, last, registered>>

\* The INSERT of create_category's commit (lines 67-69).  Category.name is
\* declared without unique=True, so the table takes any name.
create_category_commit(r) ==
    /\ r \in pending
    /\ r.op = "create_category"
    /\ pending' = pending \ {r}
    /\ \E id \in fresh_ids(DOMAIN categories, CategoryIds) :
         /\ categories' = [i \in DOMAIN categories \cup {id} |->
                             IF i = id
                             THEN [name |-> r.name, order |-> r.order, color |-> r.color]
                             ELSE categories[i]]
         /\ last' = Response("create_category", r.actor_role, HTTP_201_CREATED, id, None)
         /\ UNCHANGED <<users, tokens, tasks, now, registered>>

\* update_category up to its commit (lines 119-147).
update_category_read(worker, token, category_id, name, order, color) ==
    /\ \A r \in pending : r.thread # worker
    /\ IF update_category_status(token, category_id, name) # HTTP_200_OK
       THEN Raise("update_category", actor_role(token),
                  update_category_status(token, category_id, name), None)
       ELSE /\ pending' = pending \cup {[thread |-> worker, op |-> "update_category",
                                         actor_role |-> actor_role(token),
                                         id |-> category_id, name |-> name,
                                         order |-> order, color |-> color]}
            /\ UNCHANGED <<users, tokens, categories, tasks, now, last, registered>>

\* The UPDATE of update_category's commit (lines 149-151): it fails on a
\* category that is gone (StaleDataError).
update_category_commit(r) ==
    /\ r \in pending
    /\ r.op = "update_category"
    /\ pending' = pending \ {r}
    /\ IF r.id \notin DOMAIN categories
       THEN /\ last' = Response("update_category", r.actor_role,
                                HTTP_500_INTERNAL_SERVER_ERROR, None, None)
            /\ UNCHANGED <<users, tokens, categories, tasks, now, registered>>
       ELSE /\ categories' = [categories EXCEPT ![r.id] =
                                 patch_category(@, r.name, r.order, r.color)]
            /\ last' = Response("update_category", r.actor_role, HTTP_200_OK, r.id, None)
            /\ UNCHANGED <<users, tokens, tasks, now, registered>>

(* ------------------------------ app/main.py --------------------------- *)
DEFAULT_CATEGORIES ==
    <<[name |-> "ToDo", order |-> 0, color |-> "#6B7280"],
      [name |-> "Processing", order |-> 1, color |-> "#3B82F6"],
      [name |-> "Issue", order |-> 2, color |-> "#EF4444"],
      [name |-> "Done", order |-> 3, color |-> "#10B981"]>>

NoRequest == Response("startup", "none", None, None, None)

\* A fresh database (Base.metadata.create_all), then the lifespan's startup:
\* create_default_categories() finds no category and adds the defaults.
Init ==
    /\ users = <<>>
    /\ tokens = {}
    /\ categories = [i \in 1..Len(DEFAULT_CATEGORIES) |-> DEFAULT_CATEGORIES[i]]
    /\ tasks = <<>>
    /\ now = 0
    /\ last = NoRequest
    /\ registered = FALSE
    /\ pending = {}

(* ------------------------------ app/schemas -------------------------- *)
\* A field without a lower bound.
Field_unbounded(value, ge) == TRUE

\* Field(ge=...): the value is at least the bound.
Field_ge(value, ge) == value >= ge

\* The order of each request schema: optional in TaskCreate, TaskUpdate and
\* CategoryUpdate, required in TaskMove and CategoryReorderItem, 0 by default
\* in CategoryCreate; ge=0 in all of them.
TaskCreate_valid(task_data) ==
    task_data.order = None \/ Field_ge(task_data.order, 0)

TaskUpdate_valid(task_data) ==
    "order" \in DOMAIN task_data
    => (task_data.order = None \/ Field_ge(task_data.order, 0))

TaskMove_valid(order) == order # None /\ Field_ge(order, 0)

CategoryCreate_valid(order) == order # None /\ Field_ge(order, 0)

CategoryUpdate_valid(order) == order = None \/ Field_ge(order, 0)

CategoryReorder_valid(items) ==
    \A i \in 1..Len(items) : items[i].order # None /\ Field_ge(items[i].order, 0)

\* A request with a body: the dependencies of the handler are resolved first
\* (get_current_user), the body is validated next, and the handler runs on a
\* valid body.
validated(op, token, valid, handler) ==
    IF get_current_user(token) = None \/ valid
    THEN handler
    ELSE Raise(op, actor_role(token), HTTP_422_UNPROCESSABLE_ENTITY, None)

(* ------------------------------ requests ------------------------------ *)
\* Registration, login and the two admin operations on users, over every
\* username, e-mail address and role.
IdentityNext ==
    \/ \E u \in Usernames, e \in Emails : register(u, e, "pw")
    \/ \E e \in Emails, p \in Passwords : login(e, p)
    \/ \E t \in Credentials, id \in UserIds, r \in Roles : update_user_role(t, id, r)
    \/ \E t \in Credentials, id \in UserIds : delete_user(t, id)

\* The team of the board for the specifications of categories and tasks: two
\* accounts, each registering with its own username and e-mail address and
\* logging in with its password.  The first to register is the admin and stays
\* the one admin; the other is made a member or a viewer.
Team ==
    \/ \E k \in {k \in Usernames \cap Emails : k <= 2} : register(k, k, "pw")
    \/ \E e \in {e \in Emails : e <= 2} : login(e, "pw")
    \/ \E t \in Credentials, id \in UserIds, r \in Roles \ {"admin"} :
          update_user_role(t, id, r)

\* One account, the first to register: the admin.
Owner ==
    \/ register(1, 1, "pw")
    \/ login(1, "pw")

\* The category requests name the last default category and the ids above it;
\* a new or renamed category is called "Done" or "done".
RequestCategoryIds == {c \in CategoryIds : c >= Len(DEFAULT_CATEGORIES)}
CategoryNames == {"Done", "done"}
Colors == {"#10B981"}
ReorderItems == [id : RequestCategoryIds, order : Orders]
ReorderLists == UNION {[1..n -> ReorderItems] : n \in 0..MaxItems}

\* CategoryUpdate bodies: nothing set, a name, an order, a color.
NoUpdate == [name |-> NoneStr, order |-> None, color |-> NoneStr]
NameUpdates == {[NoUpdate EXCEPT !.name = n] : n \in CategoryNames}
OrderUpdates == {[NoUpdate EXCEPT !.order = o] : o \in Orders}
ColorUpdates == {[NoUpdate EXCEPT !.color = c] : c \in Colors}
CategoryUpdates == {NoUpdate} \cup NameUpdates \cup OrderUpdates \cup ColorUpdates

\* Reorder lists over the last default category and the first new one, with two
\* orders, so that a list can name a category twice with different orders.
BulkItems ==
    [id : {Len(DEFAULT_CATEGORIES), Len(DEFAULT_CATEGORIES) + 1}, order : {0, 1}]
BulkLists == UNION {[1..n -> BulkItems] : n \in 0..MaxItems}

CreateCategory(names, orders, colors) ==
    \E t \in Credentials, n \in names, o \in orders, c \in colors :
        create_category(t, n, o, c)

ReorderCategories(lists) ==
    \E t \in Credentials, items \in lists : reorder_categories(t, items)

UpdateCategory(updates) ==
    \E t \in Credentials, id \in RequestCategoryIds, d \in updates :
        update_category(t, id, d.name, d.order, d.color)

DeleteCategory(category_ids) ==
    \E t \in Credentials, id \in category_ids : delete_category(t, id)

CategoryNext ==
    \/ CreateCategory(CategoryNames, Orders, Colors \cup {NoneStr})
    \/ ReorderCategories(ReorderLists)
    \/ UpdateCategory(CategoryUpdates)
    \/ DeleteCategory(RequestCategoryIds)

\* The task requests name the last two default categories and the ids above.
TaskCategoryIds == {c \in CategoryIds : c >= Len(DEFAULT_CATEGORIES) - 1}

TaskCreate(category_id, assigned_to, order) ==
    [title |-> "task", description |-> NoneStr, category_id |-> category_id,
     assigned_to |-> assigned_to, start_date |-> None, due_date |-> None,
     priority |-> "medium", order |-> order]

\* TaskUpdate bodies: nothing set, an order, a category.
TaskUpdates ==
    {<<>>} \cup {[order |-> o] : o \in Orders}
           \cup {[category_id |-> c] : c \in TaskCategoryIds}

\* A body read into a schema whose configuration allows extra fields.
model_validate_allow_extra(fields, body) == body

\* A request body read into a schema of the given fields: a field that the
\* schema does not declare is ignored.
model_validate(fields, body) == [f \in DOMAIN body \cap fields |-> body[f]]

\* Request bodies that carry a created_by of their own.
ForgedCreate(category_ids) ==
    \E t \in Credentials, c \in category_ids, u \in UserIds :
        create_task(t, model_validate(TaskFields,
                                      TaskCreate(c, None, 0) @@ [created_by |-> u]))

ForgedUpdates ==
    {model_validate(TaskFields, body) :
       body \in {[created_by |-> u] : u \in UserIds}
                \cup {[order |-> 0, created_by |-> u] : u \in UserIds}}

CreateTask(category_ids, orders) ==
    \E t \in Credentials, c \in category_ids, o \in orders :
        create_task(t, TaskCreate(c, None, o))

\* TaskUpdate bodies that name a category or an assignee.
ReferenceUpdates ==
    {[category_id |-> c] : c \in TaskCategoryIds}
    \cup {[assigned_to |-> a] : a \in UserIds}

\* TaskUpdate bodies that set or clear the nullable fields, or set nothing.
NullableFields == {"description", "assigned_to", "start_date", "due_date"}
SetNullable(assigned_to) ==
    [description |-> "text", assigned_to |-> assigned_to, start_date |-> 0, due_date |-> 0]
ClearNullable ==
    [description |-> NoneStr, assigned_to |-> None, start_date |-> None, due_date |-> None]
NullableUpdates == {<<>>, ClearNullable} \cup {SetNullable(a) : a \in UserIds}

\* TaskUpdate bodies of one field, and the bodies above.
PartialUpdates ==
    NullableUpdates
    \cup {[title |-> "renamed"], [priority |-> "high"], [description |-> "text"],
          [description |-> NoneStr], [assigned_to |-> None], [start_date |-> 0],
          [start_date |-> None], [due_date |-> 0], [due_date |-> None]}
    \cup {[order |-> o] : o \in Orders}
    \cup {[assigned_to |-> a] : a \in UserIds}
    \cup {[category_id |-> c] : c \in TaskCategoryIds}

\* TaskUpdate bodies that change what the list of tasks sorts and filters by.
ListUpdates ==
    {[order |-> 1]}
    \cup {[category_id |-> c] : c \in TaskCategoryIds \cap 1..Len(DEFAULT_CATEGORIES)}
    \cup {[assigned_to |-> a, priority |-> "high"] : a \in UserIds}

AssignTask(category_ids, assignees) ==
    \E t \in Credentials, c \in category_ids, a \in assignees :
        create_task(t, TaskCreate(c, a, None))

UpdateTask(updates) ==
    \E t \in Credentials, id \in TaskIds, d \in updates : update_task(t, id, d)

DeleteTask == \E t \in Credentials, id \in TaskIds : delete_task(t, id)

MoveTask(category_ids) ==
    \E t \in Credentials, id \in TaskIds, c \in category_ids, o \in Orders :
        move_task(t, id, c, o)

\* Every request of the model.
Next ==
    \/ IdentityNext
    \/ CategoryNext
    \/ CreateTask(TaskCategoryIds, Orders \cup {None})
    \/ UpdateTask(TaskUpdates)
    \/ DeleteTask
    \/ MoveTask(TaskCategoryIds)
    \/ Tick

Spec == Init /\ [][Next]_vars

\* The identities of the board.
SpecIdentity == Init /\ [][IdentityNext]_vars

\* Admin, members and viewers create, change, reorder and delete categories.
SpecCategoryRoles ==
    Init /\ [][\/ Team
               \/ CreateCategory(CategoryNames, {0}, {NoneStr})
               \/ ReorderCategories({items \in ReorderLists : Len(items) = 1})
               \/ UpdateCategory(OrderUpdates)
               \/ DeleteCategory(RequestCategoryIds)]_vars

\* The admin creates, reorders and deletes categories.
SpecCategoryReorder ==
    Init /\ [][\/ Owner
               \/ CreateCategory(CategoryNames, {0}, {NoneStr})
               \/ ReorderCategories(ReorderLists)
               \/ DeleteCategory(RequestCategoryIds)]_vars

\* The team names, renames and deletes categories.
SpecCategoryNames ==
    Init /\ [][\/ Team
               \/ CreateCategory(CategoryNames, {0}, {NoneStr})
               \/ UpdateCategory({NoUpdate} \cup NameUpdates)
               \/ DeleteCategory(RequestCategoryIds)]_vars

\* The admin deletes categories that hold tasks or none.
SpecCategoryDelete ==
    Init /\ [][\/ Owner
               \/ CreateTask(TaskCategoryIds, {None})
               \/ DeleteTask
               \/ DeleteCategory(TaskCategoryIds)]_vars

\* The orders of the tasks of a category: tasks are created with no order of
\* their own, moved and deleted.
SpecTaskOrder ==
    Init /\ [][\/ Owner
               \/ CreateTask(TaskCategoryIds, {None})
               \/ MoveTask(TaskCategoryIds)
               \/ DeleteTask]_vars

\* Tasks are created with an order of their own and moved while time passes.
SpecTaskMove ==
    Init /\ [][\/ Owner
               \/ CreateTask(RequestCategoryIds, Orders)
               \/ MoveTask(TaskCategoryIds)
               \/ Tick]_vars

\* Admin, members and viewers create, update and move the tasks of one
\* category.
SpecTaskRoles ==
    Init /\ [][\/ Team
               \/ CreateTask(RequestCategoryIds, {None})
               \/ UpdateTask({[order |-> o] : o \in Orders})
               \/ MoveTask(RequestCategoryIds)]_vars

\* Admin, members and viewers create and delete the tasks of one category.
SpecTaskDelete ==
    Init /\ [][\/ Team
               \/ CreateTask(RequestCategoryIds, {0})
               \/ DeleteTask]_vars

\* The admin creates, updates and moves tasks that name categories and
\* assignees, existing or not.
SpecTaskReferences ==
    Init /\ [][\/ Owner
               \/ AssignTask(RequestCategoryIds, UserIds \cup {None})
               \/ UpdateTask(ReferenceUpdates)
               \/ MoveTask(RequestCategoryIds)]_vars

\* The admin creates tasks and sets and clears their nullable fields while time
\* passes.
SpecTaskUpdate ==
    Init /\ [][\/ Owner
               \/ CreateTask(RequestCategoryIds, {0})
               \/ UpdateTask(NullableUpdates)
               \/ Tick]_vars

\* The team creates, updates and moves tasks with bodies that name a creator.
SpecTaskCreator ==
    Init /\ [][\/ Team
               \/ ForgedCreate({Len(DEFAULT_CATEGORIES)})
               \/ UpdateTask(ForgedUpdates)
               \/ MoveTask({Len(DEFAULT_CATEGORIES)})]_vars

\* The admin fills two categories with tasks, changes their order, category,
\* assignee and priority, and changes the order of a category.
SpecLists ==
    Init /\ [][\/ Owner
               \/ CreateTask(TaskCategoryIds \cap 1..Len(DEFAULT_CATEGORIES), {0})
               \/ UpdateTask(ListUpdates)
               \/ UpdateCategory(OrderUpdates)]_vars

\* Requests whose order may be negative or null, through the validation of
\* their bodies.
AnyOrders == Orders \cup {None, -2}

OrderedCreateTask(category_ids) ==
    \E t \in Credentials, c \in category_ids, o \in AnyOrders :
        validated("create_task", t, TaskCreate_valid(TaskCreate(c, None, o)),
                  create_task(t, TaskCreate(c, None, o)))

OrderedUpdateTask ==
    \E t \in Credentials, id \in TaskIds, o \in AnyOrders :
        validated("update_task", t, TaskUpdate_valid([order |-> o]),
                  update_task(t, id, [order |-> o]))

OrderedMoveTask(category_ids) ==
    \E t \in Credentials, id \in TaskIds, c \in category_ids, o \in AnyOrders :
        validated("move_task", t, TaskMove_valid(o), move_task(t, id, c, o))

OrderedCreateCategory(names) ==
    \E t \in Credentials, n \in names, o \in AnyOrders :
        validated("create_category", t, CategoryCreate_valid(o),
                  create_category(t, n, o, NoneStr))

OrderedUpdateCategory(category_ids) ==
    \E t \in Credentials, id \in category_ids, o \in AnyOrders :
        validated("update_category", t, CategoryUpdate_valid(o),
                  update_category(t, id, NoneStr, o, NoneStr))

OrderedReorderCategories(category_ids) ==
    \E t \in Credentials, id \in category_ids, o \in AnyOrders :
        validated("reorder_categories", t,
                  CategoryReorder_valid(<<[id |-> id, order |-> o]>>),
                  reorder_categories(t, <<[id |-> id, order |-> o]>>))

\* The admin sends every request that carries an order, with orders that are
\* valid, null and negative.
SpecOrders ==
    Init /\ [][\/ Owner
               \/ OrderedCreateTask({Len(DEFAULT_CATEGORIES)})
               \/ OrderedUpdateTask
               \/ OrderedMoveTask({Len(DEFAULT_CATEGORIES)})
               \/ OrderedCreateCategory({"done"})
               \/ OrderedUpdateCategory({Len(DEFAULT_CATEGORIES)})
               \/ OrderedReorderCategories(RequestCategoryIds)]_vars

\* Registrations that run at the same time, each with its own username and
\* e-mail address or with those of another.
SpecConcurrentRegister ==
    Init /\ [][\/ \E th \in Threads, u \in Usernames, e \in Emails :
                     register_count(th, u, e, "pw")
               \/ \E r \in pending : register_commit(r)]_vars

\* The admin adds a category and reorders it and the last default category in
\* bulk.
SpecCategoryBulk ==
    Init /\ [][\/ Owner
               \/ CreateCategory({"done"}, {0}, Colors)
               \/ ReorderCategories(BulkLists)]_vars

\* Two accounts whose roles change and who are deleted while they hold tokens
\* and create tasks.
SpecRoleChange ==
    Init /\ [][\/ \E k \in {k \in Usernames \cap Emails : k <= 2} : register(k, k, "pw")
               \/ \E e \in {e \in Emails : e <= 2} : login(e, "pw")
               \/ \E t \in Credentials, id \in UserIds, r \in Roles :
                     update_user_role(t, id, r)
               \/ \E t \in Credentials, id \in UserIds : delete_user(t, id)
               \/ CreateTask({Len(DEFAULT_CATEGORIES)}, {0})]_vars

\* The ids above the default categories: no request of SpecPrecedence creates
\* a category, so they name categories that do not exist.
AbsentCategoryIds == RequestCategoryIds \ {Len(DEFAULT_CATEGORIES)}

\* The team sends every mutation of tasks and categories; the requests name
\* tasks that exist and that do not, and categories that do not exist.
SpecPrecedence ==
    Init /\ [][\/ Team
               \/ CreateTask(RequestCategoryIds, {0})
               \/ UpdateTask({[category_id |-> c] : c \in AbsentCategoryIds})
               \/ MoveTask(AbsentCategoryIds)
               \/ DeleteTask
               \/ CreateCategory({"Done"}, {0}, Colors)
               \/ UpdateCategory({NoUpdate})
               \/ ReorderCategories({<<i>> : i \in [id : AbsentCategoryIds, order : Orders]})
               \/ DeleteCategory(AbsentCategoryIds)]_vars

\* Tasks are created with no order of their own between moves, updates and
\* deletes that leave gaps and duplicates among the orders.
SpecTaskNextOrder ==
    Init /\ [][\/ Owner
               \/ CreateTask(RequestCategoryIds, {None})
               \/ MoveTask(RequestCategoryIds)
               \/ UpdateTask({[order |-> o] : o \in Orders})
               \/ DeleteTask]_vars

\* Two accounts whose admins change roles and delete users at the same time.
SpecConcurrentRoles ==
    Init /\ [][\/ \E k \in {k \in Usernames \cap Emails : k <= 2} : register(k, k, "pw")
               \/ \E e \in {e \in Emails : e <= 2} : login(e, "pw")
               \/ \E w \in Workers, t \in Credentials, id \in UserIds,
                     r \in {"admin", "member"} :
                     update_user_role_read(w, t, id, r)
               \/ \E w \in Workers, t \in Credentials, id \in UserIds :
                     delete_user_read(w, t, id)
               \/ \E r \in pending : update_user_role_commit(r)
               \/ \E r \in pending : delete_user_commit(r)]_vars

\* The admin's requests create and move tasks and delete categories at the
\* same time.
SpecConcurrentCategoryDelete ==
    Init /\ [][\/ Owner
               \/ \E w \in Workers, t \in Credentials :
                     create_task_read(w, t, TaskCreate(Len(DEFAULT_CATEGORIES), None, 0))
               \/ \E w \in Workers, t \in Credentials, id \in TaskIds,
                     c \in TaskCategoryIds \cap 1..Len(DEFAULT_CATEGORIES) :
                     move_task_read(w, t, id, c, 0)
               \/ \E w \in Workers, t \in Credentials :
                     delete_category_read(w, t, Len(DEFAULT_CATEGORIES))
               \/ \E r \in pending, fk \in ForeignKeys : create_task_commit(r, fk)
               \/ \E r \in pending, fk \in ForeignKeys : move_task_commit(r, fk)
               \/ \E r \in pending, fk \in ForeignKeys : delete_category_commit(r, fk)]_vars

\* The admin's requests name and rename categories at the same time.
SpecConcurrentCategoryNames ==
    Init /\ [][\/ Owner
               \/ \E w \in Workers, t \in Credentials, n \in CategoryNames :
                     create_category_read(w, t, n, 0, NoneStr)
               \/ \E w \in Workers, t \in Credentials, id \in RequestCategoryIds,
                     d \in NameUpdates :
                     update_category_read(w, t, id, d.name, d.order, d.color)
               \/ \E r \in pending : create_category_commit(r)
               \/ \E r \in pending : update_category_commit(r)]_vars

\* Two accounts create tasks and assign them to each other, and the admin
\* deletes the other account.
SpecTaskUsers ==
    Init /\ [][\/ \E k \in {k \in Usernames \cap Emails : k <= 2} : register(k, k, "pw")
               \/ \E e \in {e \in Emails : e <= 2} : login(e, "pw")
               \/ \E t \in Credentials, id \in UserIds : delete_user(t, id)
               \/ AssignTask({Len(DEFAULT_CATEGORIES)}, UserIds)
               \/ DeleteTask]_vars

(* ------------------------------ properties ---------------------------- *)
\* The tasks of a category other than one task.
siblings(task_id) ==
    category_tasks(tasks[task_id].category_id) \ {task_id}

\* C1 as claimed: a task created without an order of its own gets the greatest
\* order of the other tasks of its category plus one, or 0 when it is the only
\* task there (so N such creations into an empty category give 0, 1, ..., N-1).
C1_Original ==
    (/\ last.op = "create_task"
     /\ last.status = HTTP_201_CREATED
     /\ last.detail = None)
    => tasks[last.id].order =
         (IF siblings(last.id) = {}
          THEN 0
          ELSE Max({tasks[t].order : t \in siblings(last.id)}) + 1)

\* C2 as claimed: a successful move writes the category_id and the order of the
\* request into the task and changes nothing else: no other field of the task,
\* no other task, no category, no user.
C2_Original ==
    [][(last'.op = "move_task" /\ last'.status = HTTP_200_OK)
       => /\ tasks' = [tasks EXCEPT ![last'.id].category_id = last'.arg,
                                    ![last'.id].order = last'.detail]
          /\ categories' = categories
          /\ users' = users]_vars

\* C2, amended: a successful move writes the category_id and the order of the
\* request into the task, also when another task of the target category has
\* that order; of the other fields of the task only updated_at may change; every
\* other task, every category and every user is left as it was.
C2_MoveWritesOneTask ==
    [][(last'.op = "move_task" /\ last'.status = HTTP_200_OK)
       => /\ DOMAIN tasks' = DOMAIN tasks
          /\ tasks'[last'.id].category_id = last'.arg
          /\ tasks'[last'.id].order = last'.detail
          /\ \A f \in DOMAIN tasks[last'.id] \ {"category_id", "order", "updated_at"} :
                tasks'[last'.id][f] = tasks[last'.id][f]
          /\ \A t \in DOMAIN tasks \ {last'.id} : tasks'[t] = tasks[t]
          /\ categories' = categories
          /\ users' = users]_vars

\* C2, witness: a task was moved onto the order of another task of the target
\* category.
C2_Witness ==
    /\ last.op = "move_task"
    /\ last.status = HTTP_200_OK
    /\ \E t \in siblings(last.id) : tasks[t].order = tasks[last.id].order

\* C3: create_task, update_task and move_task are role-gated.  A viewer always
\* receives 403 Forbidden and the database is left as it was; an admin or a
\* member is never answered 403, whoever created the task.
C3_TaskRoleGate ==
    [][last'.op \in {"create_task", "update_task", "move_task"}
       => /\ last'.role = "viewer"
             => /\ last'.status = HTTP_403_FORBIDDEN
                /\ UNCHANGED <<users, categories, tasks>>
          /\ last'.role \in {"admin", "member"} => last'.status # HTTP_403_FORBIDDEN]_vars

\* C3, witness: a viewer was refused the update of a task that a viewer created.
C3_Witness ==
    /\ last.op = "update_task"
    /\ last.role = "viewer"
    /\ last.status = HTTP_403_FORBIDDEN
    /\ \E t \in DOMAIN tasks :
          /\ tasks[t].created_by \in DOMAIN users
          /\ users[tasks[t].created_by].role = "viewer"

\* C4: deleting an existing task succeeds, and removes the task, exactly when the
\* actor is an admin, a member, or the creator of the task; any other actor
\* receives 403 Forbidden and the task stays.
C4_DeleteTaskPolicy ==
    /\ [](\A t \in tokens, id \in DOMAIN tasks :
            get_current_user(t) # None
            => IF \/ users[get_current_user(t)].role \in {"admin", "member"}
                  \/ get_current_user(t) = tasks[id].created_by
               THEN delete_task_status(t, id) = HTTP_204_NO_CONTENT
               ELSE delete_task_status(t, id) = HTTP_403_FORBIDDEN)
    /\ [][last'.op = "delete_task"
          => /\ last'.status = HTTP_204_NO_CONTENT
                => tasks' = [t \in DOMAIN tasks \ {last'.id} |-> tasks[t]]
             /\ last'.status = HTTP_403_FORBIDDEN
                => tasks' = tasks /\ last'.role = "viewer"]_vars

\* C4, witness: a viewer deleted a task (the one the viewer had created before
\* the demotion).
C4_Witness ==
    /\ last.op = "delete_task"
    /\ last.role = "viewer"
    /\ last.status = HTTP_204_NO_CONTENT

\* C5: the category mutations are role-gated.  create, update and reorder by a
\* viewer, and delete by a member or a viewer, end in 403 Forbidden with the
\* categories table left as it was; an admin is never refused for role, and a
\* member is never refused for role on create, update and reorder.
C5_CategoryRoleGate ==
    [][/\ last'.op \in {"create_category", "update_category", "reorder_categories"}
          => /\ last'.role = "viewer"
                => last'.status = HTTP_403_FORBIDDEN /\ categories' = categories
             /\ last'.role \in {"admin", "member"} => last'.status # HTTP_403_FORBIDDEN
       /\ last'.op = "delete_category"
          => /\ last'.role \in {"member", "viewer"}
                => last'.status = HTTP_403_FORBIDDEN /\ categories' = categories
             /\ last'.role = "admin" => last'.status # HTTP_403_FORBIDDEN]_vars

\* C5, witness: a member was refused the deletion of a category.
C5_Witness ==
    /\ last.op = "delete_category"
    /\ last.role = "member"
    /\ last.status = HTTP_403_FORBIDDEN

\* C6: update_user_role and delete_user change the store only when the actor is
\* an admin and the target is not the actor: a non-admin actor receives 403
\* Forbidden, an admin naming their own id receives 400 Bad Request whatever the
\* requested role, and in both cases the users table is left as it was.
C6_AdminOnlyNotSelf ==
    /\ [](\A t \in tokens, id \in UserIds :
            get_current_user(t) # None
            => /\ users[get_current_user(t)].role # "admin"
                  => /\ update_user_role_status(t, id) = HTTP_403_FORBIDDEN
                     /\ delete_user_status(t, id) = HTTP_403_FORBIDDEN
               /\ (users[get_current_user(t)].role = "admin" /\ id = get_current_user(t))
                  => /\ update_user_role_status(t, id) = HTTP_400_BAD_REQUEST
                     /\ delete_user_status(t, id) = HTTP_400_BAD_REQUEST)
    /\ [][last'.op \in {"update_user_role", "delete_user"}
          => /\ last'.status \in {HTTP_403_FORBIDDEN, HTTP_400_BAD_REQUEST}
                => users' = users
             /\ users' # users
                => /\ last'.role = "admin"
                   /\ last'.status \in {HTTP_200_OK, HTTP_204_NO_CONTENT}
                   /\ \A id \in DOMAIN users \ {last'.id} :
                         id \in DOMAIN users' /\ users'[id] = users[id]]_vars

\* C6, witness: an admin was refused a change of their own role.
C6_Witness ==
    /\ last.op = "update_user_role"
    /\ last.role = "admin"
    /\ last.status = HTTP_400_BAD_REQUEST

\* The answers of delete_category to an admin, with refusal the status that a
\* category with tasks is refused with: the refusal carries the number of tasks
\* of the category, and a category without tasks is deleted.
delete_category_answers(refusal) ==
    \A t \in tokens, c \in DOMAIN categories :
       (get_current_user(t) # None /\ users[get_current_user(t)].role = "admin")
       => IF \E k \in DOMAIN tasks : tasks[k].category_id = c
          THEN /\ delete_category_status(t, c) = refusal
               /\ delete_category_detail(t, c) =
                    Cardinality({k \in DOMAIN tasks : tasks[k].category_id = c})
          ELSE delete_category_status(t, c) = HTTP_204_NO_CONTENT

\* What a delete_category step leaves behind: a refusal leaves the categories
\* and the tasks as they were, a success removes the category and nothing else.
delete_category_effect(refusal) ==
    last'.op = "delete_category"
    => /\ last'.status = refusal
          => categories' = categories /\ tasks' = tasks
       /\ last'.status = HTTP_204_NO_CONTENT
          => /\ categories' = [c \in DOMAIN categories \ {last'.id} |-> categories[c]]
             /\ last'.id \in DOMAIN categories
             /\ tasks' = tasks

\* C7 as claimed: an admin's delete of a category that at least one task
\* references is rejected with Conflict (409), the message carries the exact
\* number of tasks of the category, and the category and its tasks remain; a
\* category that no task references is removed.
C7_Original ==
    delete_category_answers(409)

\* C7, amended: an admin's delete of a category that at least one task
\* references is rejected with 400 Bad Request, the message carries the exact
\* number of tasks of the category, and the category and its tasks remain; a
\* category that no task references is removed.
C7_DeleteBlockedWhenNonEmpty ==
    /\ [](delete_category_answers(HTTP_400_BAD_REQUEST))
    /\ [][delete_category_effect(HTTP_400_BAD_REQUEST)]_vars

\* C7, witness: the deletion of a category was refused with a detail of one
\* task while the tasks table holds two tasks, the other in another category.
C7_Witness ==
    /\ last.op = "delete_category"
    /\ last.status = HTTP_400_BAD_REQUEST
    /\ last.detail = 1
    /\ Cardinality(DOMAIN tasks) = 2

\* C8: bulk reorder is all-or-nothing.  When an item of the list names a
\* category that does not exist, an admin or member receives 404 Not Found and
\* no category's order changes in the committed store, the categories named by
\* the items before the missing id included.
C8_ReorderAtomic ==
    /\ [](\A t \in tokens, items \in ReorderLists :
            (/\ get_current_user(t) # None
             /\ users[get_current_user(t)].role \in {"admin", "member"}
             /\ \E i \in DOMAIN items : items[i].id \notin DOMAIN categories)
            => /\ reorder_categories_status(t, items) = HTTP_404_NOT_FOUND
               /\ reorder_committed(items) = categories)
    /\ [][(last'.op = "reorder_categories" /\ last'.status = HTTP_404_NOT_FOUND)
          => categories' = categories]_vars

\* C8, witness: a reorder was answered 404 while an existing category of the
\* request range still has the order it was seeded with, although a list with a
\* missing id may name it first with another order.
C8_Witness ==
    /\ last.op = "reorder_categories"
    /\ last.status = HTTP_404_NOT_FOUND
    /\ \E c \in DOMAIN categories \cap RequestCategoryIds :
          /\ categories[c].order = DEFAULT_CATEGORIES[Len(DEFAULT_CATEGORIES)].order
          /\ \E items \in ReorderLists :
                /\ Len(items) = MaxItems
                /\ items[1].id = c
                /\ items[1].order # categories[c].order
                /\ items[MaxItems].id \notin DOMAIN categories

\* No two categories share a name.
UniqueCategoryNames ==
    \A a, b \in DOMAIN categories : categories[a].name = categories[b].name => a = b

\* The answers of create_category and update_category to an admin or member,
\* with duplicate the status that a name in use is refused with: a name equal,
\* character for character, to the name of a category is refused on create, and
\* on update when the category is another one; the category's own name passes.
category_name_answers(duplicate) ==
    \A t \in tokens, n \in CategoryNames :
       (get_current_user(t) # None
        /\ users[get_current_user(t)].role \in {"admin", "member"})
       => /\ create_category_status(t, n) =
               (IF \E a \in DOMAIN categories : categories[a].name = n
                THEN duplicate ELSE HTTP_201_CREATED)
          /\ \A b \in DOMAIN categories :
                update_category_status(t, b, n) =
                  (IF \E a \in DOMAIN categories \ {b} : categories[a].name = n
                   THEN duplicate ELSE HTTP_200_OK)

\* What a refused create_category or update_category leaves behind: the
\* categories as they were.
category_name_effect(duplicate) ==
    (last'.op \in {"create_category", "update_category"} /\ last'.status = duplicate)
    => categories' = categories

\* C9 as claimed: category names are unique by exact, case-sensitive match.
\* Creating a category under the name of an existing category returns Conflict
\* (409) and creates nothing; renaming a category to the name of another returns
\* Conflict and leaves it unchanged; renaming it to its own name succeeds; so no
\* two categories ever share a name.
C9_Original ==
    category_name_answers(409) /\ UniqueCategoryNames

\* C9, amended: category names are unique by exact, case-sensitive match.
\* Creating a category under the name of an existing category returns 400 Bad
\* Request and creates nothing; renaming a category to the name of another
\* returns 400 Bad Request and leaves it unchanged; renaming it to its own name
\* succeeds; so no two categories ever share a name.
C9_CategoryNameUniqueness ==
    /\ [](category_name_answers(HTTP_400_BAD_REQUEST) /\ UniqueCategoryNames)
    /\ [][category_name_effect(HTTP_400_BAD_REQUEST)]_vars

\* C9, witness: a rename was refused while two categories carry names that
\* differ in case only.
C9_Witness ==
    /\ last.op = "update_category"
    /\ last.status = HTTP_400_BAD_REQUEST
    /\ \E a, b \in DOMAIN categories :
          categories[a].name = "Done" /\ categories[b].name = "done"

\* C10: over any history of register, update_user_role and delete_user, the
\* first successful registration yields an admin and every later one a member;
\* once a user has registered the users table is never empty again.
C10_FirstUserIsAdmin ==
    [][/\ (last'.op = "register" /\ last'.status = HTTP_201_CREATED)
          => /\ last'.id \notin DOMAIN users
             /\ last'.id \in DOMAIN users'
             /\ users'[last'.id].role = (IF registered THEN "member" ELSE "admin")
       /\ registered => DOMAIN users' # {}]_vars

\* C10, witness: a registration into a table that holds an admin yielded a
\* member.
C10_Witness ==
    /\ last.op = "register"
    /\ last.status = HTTP_201_CREATED
    /\ users[last.id].role = "member"
    /\ \E id \in DOMAIN users \ {last.id} : users[id].role = "admin"

\* No two users share an e-mail address or a username.
UniqueIdentities ==
    \A a, b \in DOMAIN users :
       (users[a].email = users[b].email \/ users[a].username = users[b].username)
       => a = b

\* The answers of register, with duplicate the status that an e-mail address or
\* a username in use is refused with.
register_answers(duplicate) ==
    \A u \in Usernames, e \in Emails :
       register_status(u, e) =
         (IF \/ \E id \in DOMAIN users : users[id].email = e
             \/ \E id \in DOMAIN users : users[id].username = u
          THEN duplicate
          ELSE HTTP_201_CREATED)

\* C11 as claimed: registering with an e-mail address or a username that a user
\* holds is rejected with Conflict (409) and creates no user; so no two users
\* ever share an e-mail address or a username.
C11_Original ==
    register_answers(409) /\ UniqueIdentities

\* C11, amended: registering with an e-mail address or a username that a user
\* holds is rejected with 400 Bad Request and creates no user; so, with requests
\* executing one at a time, no two users ever share an e-mail address or a
\* username.
C11_IdentityUniqueness ==
    /\ [](register_answers(HTTP_400_BAD_REQUEST) /\ UniqueIdentities)
    /\ [][(last'.op = "register" /\ last'.status = HTTP_400_BAD_REQUEST)
          => users' = users]_vars

\* C11, witness: a registration was refused while the table holds two users, so
\* that every e-mail address and every username of a request is in use.
C11_Witness ==
    /\ last.op = "register"
    /\ last.status = HTTP_400_BAD_REQUEST
    /\ Cardinality(DOMAIN users) = NumEmails

\* C12: referential checks answer 404 Not Found and change nothing.  For an
\* admin or member: create_task with a category_id that names no category, or
\* with an assigned_to that names no user; update_task of an existing task with
\* such a category_id or assigned_to in the patch; move_task of an existing task
\* to a category that does not exist.  No task is created or modified.
C12_ReferentialChecks ==
    /\ [](\A t \in tokens :
            actor_role(t) \in {"admin", "member"}
            => /\ \A c \in CategoryIds, a \in UserIds \cup {None} :
                     (c \notin DOMAIN categories \/ (a # None /\ a \notin DOMAIN users))
                     => /\ create_task_status(t, TaskCreate(c, a, None))
                             = HTTP_404_NOT_FOUND
                        /\ \A id \in DOMAIN tasks :
                              update_task_status(t, id, [category_id |-> c, assigned_to |-> a])
                                = HTTP_404_NOT_FOUND
               /\ \A id \in DOMAIN tasks :
                     /\ \A c \in CategoryIds \ DOMAIN categories :
                           /\ update_task_status(t, id, [category_id |-> c])
                                = HTTP_404_NOT_FOUND
                           /\ move_task_status(t, id, c) = HTTP_404_NOT_FOUND
                     /\ \A a \in UserIds \ DOMAIN users :
                           update_task_status(t, id, [assigned_to |-> a])
                             = HTTP_404_NOT_FOUND)
    /\ [][(/\ last'.op \in {"create_task", "update_task", "move_task"}
           /\ last'.status = HTTP_404_NOT_FOUND)
          => tasks' = tasks]_vars

\* C12, witness: a create_task was answered 404 while a task that is assigned
\* to a user exists.
C12_Witness ==
    /\ last.op = "create_task"
    /\ last.status = HTTP_404_NOT_FOUND
    /\ \E t \in DOMAIN tasks : tasks[t].assigned_to # None

\* What update_task makes of a task under a patch that it accepts, as claimed
\* for the fields in kept: a field that the patch does not carry keeps its value,
\* a field that it carries takes the value of the patch, null included.
partially_updated(task, task_data, kept) ==
    \A f \in kept :
       patch_task(task, task_data)[f] =
         (IF f \in DOMAIN task_data THEN task_data[f] ELSE task[f])

\* The patches that update_task accepts for a task, for some credential.
accepted_updates(task_id) ==
    {d \in PartialUpdates :
       \E t \in tokens : update_task_status(t, task_id, d) = HTTP_200_OK}

\* A step of update_task that succeeds applies a patch to its task and leaves
\* every other task as it was.
update_task_effect ==
    (last'.op = "update_task" /\ last'.status = HTTP_200_OK)
    => /\ DOMAIN tasks' = DOMAIN tasks
       /\ \E d \in accepted_updates(last'.id) :
             tasks'[last'.id] = patch_task(tasks[last'.id], d)
       /\ \A t \in DOMAIN tasks \ {last'.id} : tasks'[t] = tasks[t]

\* C13 as claimed: update_task has partial-update semantics.  Every field of
\* the task that the patch does not carry keeps its value; a field carried with
\* a value takes it; a nullable field carried as null is cleared; no other task
\* is modified.
C13_Original ==
    /\ [](\A id \in DOMAIN tasks : \A d \in accepted_updates(id) :
            partially_updated(tasks[id], d, DOMAIN tasks[id]))
    /\ [][update_task_effect]_vars

\* C13, amended: update_task has partial-update semantics.  Every field of the
\* task that the patch does not carry, except updated_at (which the database
\* refreshes when the update changes the row), keeps its value; a field carried
\* with a value takes it; a nullable field carried as null is cleared; no other
\* task is modified.
C13_PartialUpdate ==
    /\ [](\A id \in DOMAIN tasks : \A d \in accepted_updates(id) :
            partially_updated(tasks[id], d, DOMAIN tasks[id] \ {"updated_at"}))
    /\ [][update_task_effect]_vars

\* C13, witness: an update cleared the nullable fields of a task that had them
\* set, next to a task that still has them set.
C13_Witness ==
    /\ last.op = "update_task"
    /\ last.status = HTTP_200_OK
    /\ \A f \in NullableFields : is_none(f, tasks[last.id][f])
    /\ tasks[last.id].updated_at > tasks[last.id].created_at
    /\ \E t \in DOMAIN tasks \ {last.id} :
          \A f \in NullableFields : ~is_none(f, tasks[t][f])

\* C14: the created_by of a task is the id of the actor who issued the create
\* request, whatever created_by the request carried, and no update or move
\* changes it.
C14_CreatedByIsActor ==
    [][/\ \A t \in tokens :
            (/\ create_task(t, TaskCreate(Len(DEFAULT_CATEGORIES), None, 0))
             /\ last'.status = HTTP_201_CREATED)
            => tasks'[last'.id].created_by = get_current_user(t)
       /\ last'.op \in {"update_task", "move_task"}
          => \A id \in DOMAIN tasks :
                id \in DOMAIN tasks' /\ tasks'[id].created_by = tasks[id].created_by]_vars

\* C14, witness: somebody of another role than the creator of a task has updated
\* it with a body that names a creator, and the board holds tasks of two creators.
C14_Witness ==
    /\ last.op = "update_task"
    /\ last.status = HTTP_200_OK
    /\ tasks[last.id].updated_at >= tasks[last.id].created_at
    /\ tasks[last.id].created_by \in DOMAIN users
    /\ users[tasks[last.id].created_by].role # last.role
    /\ \E t \in DOMAIN tasks : tasks[t].created_by # tasks[last.id].created_by

\* The filters of the claim: none, or one of the three, or all three.
ListFilters ==
    {<<None, None, NoneStr>>}
    \cup {<<c, None, NoneStr>> : c \in TaskCategoryIds}
    \cup {<<None, a, NoneStr>> : a \in UserIds}
    \cup {<<None, None, p>> : p \in {"medium", "high"}}
    \cup {<<c, a, "high">> : c \in TaskCategoryIds, a \in UserIds}

\* A list holds exactly the ids of a set, each once.
lists_exactly(list, ids) ==
    /\ {list[i] : i \in 1..Len(list)} = ids
    /\ Len(list) = Cardinality(ids)

\* C15: the list of tasks is sorted ascending by (category_id, order) and the
\* list of categories ascending by order; a category_id, assigned_to or
\* priority filter returns exactly the matching tasks, in the same order.
C15_ListsSorted ==
    /\ \A f \in ListFilters : \A list \in get_tasks(f[1], f[2], f[3]) :
          /\ lists_exactly(list, {t \in DOMAIN tasks :
                                    /\ f[1] # None => tasks[t].category_id = f[1]
                                    /\ f[2] # None => tasks[t].assigned_to = f[2]
                                    /\ f[3] # NoneStr => tasks[t].priority = f[3]})
          /\ \A i, j \in 1..Len(list) :
                i < j => \/ tasks[list[i]].category_id < tasks[list[j]].category_id
                         \/ /\ tasks[list[i]].category_id = tasks[list[j]].category_id
                            /\ tasks[list[i]].order <= tasks[list[j]].order
    /\ get_tasks(None, None, NoneStr) # {}
    /\ get_categories # {}
    /\ \A list \in get_categories :
          /\ lists_exactly(list, DOMAIN categories)
          /\ \A i, j \in 1..Len(list) :
                i < j => categories[list[i]].order <= categories[list[j]].order

\* C15, witness: the list of tasks does not run in the sequence of the ids, a
\* filter leaves a task out, and the list of categories does not run in the
\* sequence of the ids either.
C15_Witness ==
    /\ \E list \in get_tasks(None, None, NoneStr) :
          /\ Len(list) = 2
          /\ list[1] > list[2]
          /\ tasks[list[1]].order > tasks[list[2]].order
    /\ \E list \in get_tasks(None, None, "high") : Len(list) = 1
    /\ \A list \in get_categories : \E i \in 1..Len(list) : list[i] # i

\* C16: the order of every task and of every category is at least 0 in every
\* reachable state, whatever orders the requests carry.
C16_OrdersNonNegative ==
    /\ \A t \in DOMAIN tasks : tasks[t].order >= 0
    /\ \A c \in DOMAIN categories : categories[c].order >= 0

\* C16, witness: a request with an invalid order has been refused while the
\* board holds a task whose order get_next_order chose and a category whose
\* order a request has changed.
C16_Witness ==
    /\ last.status = HTTP_422_UNPROCESSABLE_ENTITY
    /\ \E t \in DOMAIN tasks : tasks[t].order > MaxOrder
    /\ \E c \in 1..Len(DEFAULT_CATEGORIES) :
          categories[c].order # DEFAULT_CATEGORIES[c].order
    /\ DOMAIN categories # 1..Len(DEFAULT_CATEGORIES)

\* C17 as claimed: under concurrent registrations into an empty users table at
\* most one user receives the role admin through registration; two register
\* requests that both count the users before either inserts are not both
\* created as admin.
C17_Original ==
    Cardinality({id \in DOMAIN users : users[id].role = "admin"}) <= 1

\* The ids that a reorder list names.
listed(items) == {items[i].id : i \in 1..Len(items)}

\* What a bulk reorder leaves alone: the order of every category that the list
\* does not name, every name and color, and the set of categories.
reorder_leaves(items) ==
    /\ DOMAIN reorder_committed(items) = DOMAIN categories
    /\ \A c \in DOMAIN categories :
          /\ reorder_committed(items)[c].name = categories[c].name
          /\ reorder_committed(items)[c].color = categories[c].color
          /\ c \notin listed(items)
             => reorder_committed(items)[c].order = categories[c].order

\* A step of reorder_categories that succeeds commits the loop over some list
\* whose ids all exist, touches no task, and returns every category once, in
\* ascending order.
reorder_step ==
    (last'.op = "reorder_categories" /\ last'.status = HTTP_200_OK)
    => /\ \E items \in BulkLists :
             /\ listed(items) \subseteq DOMAIN categories
             /\ categories' = reorder_committed(items)
       /\ tasks' = tasks
       /\ reorder_categories_response' # {}
       /\ \A list \in reorder_categories_response' :
             /\ lists_exactly(list, DOMAIN categories')
             /\ \A i, j \in 1..Len(list) :
                   i < j => categories'[list[i]].order <= categories'[list[j]].order

\* C18 as claimed: a successful bulk reorder (every listed id exists) sets the
\* order of each listed category to the value supplied for it, leaves the order
\* of every unlisted category and every name and color unchanged, creates and
\* deletes no category, and returns the full list sorted ascending by order.
C18_Original ==
    /\ [](\A items \in BulkLists :
            listed(items) \subseteq DOMAIN categories
            => /\ \A i \in 1..Len(items) :
                     reorder_committed(items)[items[i].id].order = items[i].order
               /\ reorder_leaves(items))
    /\ [][reorder_step]_vars

\* C18, amended: a successful bulk reorder sets the order of each listed
\* category to the value of the last item of the list that names it, leaves
\* the order of every unlisted category and every name and color unchanged,
\* creates and deletes no category, and returns the full list sorted ascending
\* by order.
C18_BulkReorder ==
    /\ [](\A items \in BulkLists :
            listed(items) \subseteq DOMAIN categories
            => /\ \A c \in listed(items) :
                     reorder_committed(items)[c].order =
                       items[Max({i \in 1..Len(items) : items[i].id = c})].order
               /\ reorder_leaves(items))
    /\ [][reorder_step]_vars

\* C18, witness: a bulk reorder has succeeded on a board of five categories and
\* has left the last default category and the new one in front of an unlisted
\* category, which the returned list ends with.
C18_Witness ==
    /\ last.op = "reorder_categories"
    /\ last.status = HTTP_200_OK
    /\ Cardinality(DOMAIN categories) = Len(DEFAULT_CATEGORIES) + 1
    /\ \A c \in DOMAIN categories :
          c >= Len(DEFAULT_CATEGORIES) => categories[c].order = 1
    /\ \A list \in reorder_categories_response :
          list[Len(list)] = Len(DEFAULT_CATEGORIES) - 1

\* C19: authorization uses the role stored at the time of the request, not the
\* role held when the token was issued.  Once an admin has changed the role of
\* a user, a request with a token issued to the user before is allowed or
\* denied by the new role: creating a task is forbidden to a viewer and open to
\* the others, changing roles is forbidden to all but an admin.  Once an admin
\* has deleted a user, a request with the user's token is unauthenticated.
C19_RoleReadAtRequest ==
    [][/\ (last'.op = "update_user_role" /\ last'.status = HTTP_200_OK)
          => \A t \in tokens :
                get_current_user(t) = last'.id
                => /\ actor_role(t)' = users'[last'.id].role
                   /\ create_task_status(t, TaskCreate(Len(DEFAULT_CATEGORIES), None, 0))'
                        = (IF users'[last'.id].role = "viewer"
                           THEN HTTP_403_FORBIDDEN
                           ELSE HTTP_201_CREATED)
                   /\ \A id \in UserIds :
                         id = last'.id
                         => ((update_user_role_status(t, id)' = HTTP_403_FORBIDDEN)
                             <=> (users'[id].role # "admin"))
       /\ (last'.op = "delete_user" /\ last'.status = HTTP_204_NO_CONTENT)
          => \A t \in tokens :
                get_current_user(t) = last'.id
                => /\ get_current_user(t)' = None
                   /\ create_task_status(t, TaskCreate(Len(DEFAULT_CATEGORIES), None, 0))'
                        = HTTP_401_UNAUTHORIZED]_vars

\* C19, witness: a user who created a task as a member has been made a viewer
\* and has been refused the creation of another with the token of before.
C19_Witness ==
    /\ last.op = "create_task"
    /\ last.status = HTTP_403_FORBIDDEN
    /\ last.role = "viewer"
    /\ \E t \in DOMAIN tasks :
          /\ tasks[t].created_by \in DOMAIN users
          /\ users[tasks[t].created_by].role = "viewer"
          /\ \E k \in tokens : get_current_user(k) = tasks[t].created_by

\* C20: the role check precedes every existence check.  A viewer is answered
\* 403 Forbidden by create, update and move of tasks and by create, update and
\* reorder of categories, and a member or a viewer by delete of categories,
\* whether the task, category or assignee that the request names exists or not,
\* and nothing is written.  delete of tasks is the exception: a task that does
\* not exist is answered 404 Not Found for every role.
C20_ErrorPrecedence ==
    /\ [](\A t \in tokens :
            /\ actor_role(t) = "viewer"
               => /\ \A c \in CategoryIds, a \in UserIds \cup {None} :
                        create_task_status(t, TaskCreate(c, a, 0)) = HTTP_403_FORBIDDEN
                  /\ \A id \in TaskIds, d \in ReferenceUpdates \cup {<<>>} :
                        update_task_status(t, id, d) = HTTP_403_FORBIDDEN
                  /\ \A id \in TaskIds, c \in CategoryIds :
                        move_task_status(t, id, c) = HTTP_403_FORBIDDEN
                  /\ \A n \in CategoryNames :
                        create_category_status(t, n) = HTTP_403_FORBIDDEN
                  /\ \A c \in CategoryIds, n \in CategoryNames \cup {NoneStr} :
                        update_category_status(t, c, n) = HTTP_403_FORBIDDEN
                  /\ \A i \in [id : CategoryIds, order : Orders] :
                        reorder_categories_status(t, <<i>>) = HTTP_403_FORBIDDEN
            /\ actor_role(t) \in {"member", "viewer"}
               => \A c \in CategoryIds :
                     delete_category_status(t, c) = HTTP_403_FORBIDDEN
            /\ get_current_user(t) # None
               => \A id \in TaskIds \ DOMAIN tasks :
                     delete_task_status(t, id) = HTTP_404_NOT_FOUND)
    /\ [][/\ (/\ last'.role = "viewer"
              /\ last'.op \in {"create_task", "update_task", "move_task",
                               "create_category", "update_category",
                               "reorder_categories", "delete_category"})
             => last'.status = HTTP_403_FORBIDDEN /\ UNCHANGED db
          /\ (last'.role = "member" /\ last'.op = "delete_category")
             => last'.status = HTTP_403_FORBIDDEN /\ UNCHANGED db]_vars

\* C20, witness: a viewer has been refused an update with 403 while the board
\* holds no task and lacks a category that the requests name.
C20_Witness ==
    /\ last.op = "update_task"
    /\ last.role = "viewer"
    /\ last.status = HTTP_403_FORBIDDEN
    /\ DOMAIN tasks = {}
    /\ RequestCategoryIds \ DOMAIN categories # {}

admins == {id \in DOMAIN users : users[id].role = "admin"}

\* C22: with requests running one at a time, once the first user has
\* registered every state holds at least one user of role admin, after any
\* sequence of register, update_user_role and delete_user.
C22_AlwaysAnAdmin == registered => admins # {}

\* C22, witness: the first admin has been deleted by an admin who registered
\* later, who is the one admin left.
C22_Witness ==
    /\ last.op = "delete_user"
    /\ last.status = HTTP_204_NO_CONTENT
    /\ Cardinality(admins) = 1
    /\ \A id \in admins : last.id < id

\* C23 as claimed: under any interleaving of requests that run at the same
\* time, once the first user exists every state holds at least one admin; two
\* admins who demote or delete each other, each past its checks before the
\* other commits, do not leave the users without an admin.
C23_Original == registered => admins # {}

\* C24 as claimed: in every reachable state the category_id of every task names
\* an existing category, after any sequence of requests and also when a
\* delete_category runs at the same time as a create_task, move_task or
\* update_task that names the category.
C24_Original == \A t \in DOMAIN tasks : tasks[t].category_id \in DOMAIN categories

\* C25 as claimed: under any interleaving of create_category and
\* update_category requests that run at the same time no two categories share
\* a name in any reachable state; two requests that both pass the lookup of the
\* name before either commits do not both store it.
C25_Original ==
    \A a, b \in DOMAIN categories : categories[a].name = categories[b].name => a = b

\* C26 as claimed: a token issued at login to a user never authenticates a
\* request as another user.  Once the user is deleted the token resolves to no
\* actor, and a user who registers afterwards, with the e-mail address of the
\* deleted user or another, is not the actor of any token issued before.
C26_Original ==
    [][/\ (last'.op = "delete_user" /\ last'.status = HTTP_204_NO_CONTENT)
          => \A t \in tokens :
                get_current_user(t) = last'.id => get_current_user(t)' = None
       /\ (last'.op = "register" /\ last'.status = HTTP_201_CREATED)
          => \A t \in tokens : get_current_user(t)' # last'.id]_vars

\* C27: in every reachable state the created_by of every task names an
\* existing user and every assigned_to that is not null names an existing
\* user, also after delete_user on a user who created tasks or has tasks
\* assigned.
C27_TaskUsersExist ==
    \A t \in DOMAIN tasks :
       /\ tasks[t].created_by \in DOMAIN users
       /\ tasks[t].assigned_to # None => tasks[t].assigned_to \in DOMAIN users

\* C27, witness: a user has been deleted whose task, created by the admin and
\* assigned to the user, is left without an assignee.
C27_Witness ==
    /\ last.op = "delete_user"
    /\ last.status = HTTP_204_NO_CONTENT
    /\ last.id \notin DOMAIN users
    /\ \E t \in DOMAIN tasks : tasks[t].assigned_to = None

=============================================================================
